---------------------------- MODULE Spec2Model ----------------------------
(***************************************************************************)
(* A model of the resume -> Notion uploaders:                              *)
(*   src/json_notion_webapp.py  (class NotionUploader and the Streamlit    *)
(*                               page main())                              *)
(*   src/unnamed/part_000       ("file to notion.py": upload_to_notion,    *)
(*                               _build_properties, _format_phone)         *)
(*                                                                         *)
(* Text is a sequence of one-character strings.  The Korean dictionary     *)
(* keys of the source are written with ASCII names:                        *)
(*   "name"       json_notion_webapp.py:98   (the title field)             *)
(*   "email"      :123        "phone"      :127                            *)
(*   "age_paren"  :136 (first key)   "age"  :136 (second key, the field)   *)
(*   "gender"     :137        "career"     :147                            *)
(*   "edu_school" :148 (first key)   "edu"  :148 (second key, the field)   *)
(*   "company"    :149        "duties"     :150                            *)
(*   "skills"     :151        "position"   :152                            *)
(***************************************************************************)
EXTENDS Integers, Sequences, FiniteSets, TLC

VARIABLES
  \* ---- the Streamlit session of json_notion_webapp.py main() ----
  notion_token,      \* the token text input (:188)
  database_id,       \* the database id text input (:195)
  session_state,     \* st.session_state: connection_verified, uploader
  data,              \* the parsed JSON input (:244, :256, :334)
  pc,                \* "idle", or "batch" while the loop of :386 runs
  i,                 \* the loop index of :386 (records processed so far)
  total,             \* :380
  success_count,     \* :381
  log_messages,      \* :384
  shown,             \* what the last upload click displayed (:374, :376, :411, :413)
  pages,             \* the remote: pages created so far, per database
  remote_calls,      \* the remote calls the current script run has issued
  returned_ok,       \* upload_person calls that returned success so far
  event,             \* the interaction the last script run handled
  \* ---- one call of an operation on given inputs ----
  person_data,       \* the record handed to the operation
  db_info,           \* the schema the remote holds / the uploader cached
  op,                \* the operation applied ("none" before it)
  out,               \* its outcome: what it returned or raised (ret), the
                     \* remote calls it issued (calls), the st.error
                     \* messages (errors), self.db_info afterwards (cached)
  \* ---- the phone normalizer ----
  phone,             \* the input
  formatted          \* the outputs of the two copies (None before)

sessionVars == <<notion_token, database_id, session_state, data, pc, i, total,
                 success_count, log_messages, shown, pages, remote_calls,
                 returned_ok, event>>
callVars    == <<person_data, db_info, op, out>>
phoneVars   == <<phone, formatted>>
vars        == <<sessionVars, callVars, phoneVars>>

(***************************************************************************)
(* Python values                                                           *)
(***************************************************************************)
None      == [tag |-> "none"]
Str(s)    == [tag |-> "str", s |-> s]
Num(n)    == [tag |-> "int", n |-> n]
Dict(d)   == [tag |-> "dict", d |-> d]
List(xs)  == [tag |-> "list", items |-> xs]

EmptyDict == [k \in {} |-> None]

\* bool(v): None, "", 0, {} and [] are false
Truthy(v) ==
  CASE v.tag = "none" -> FALSE
    [] v.tag = "str"  -> v.s # <<>>
    [] v.tag = "int"  -> v.n # 0
    [] v.tag = "dict" -> DOMAIN v.d # {}
    [] v.tag = "list" -> v.items # <<>>
    [] v.tag = "bool" -> v.b

DigitChar == <<"0", "1", "2", "3", "4", "5", "6", "7", "8", "9">>

RECURSIVE IntText(_)
IntText(n) == IF n < 10 THEN <<DigitChar[n + 1]>>
              ELSE IntText(n \div 10) \o <<DigitChar[(n % 10) + 1]>>

\* str(v) of a string, a non-negative integer or None
PyStr(v) ==
  CASE v.tag = "int"  -> IntText(v.n)
    [] v.tag = "none" -> <<"N", "o", "n", "e">>
    [] v.tag = "str"  -> v.s

\* d.get(k) of a dict
Get(d, k) == IF k \in DOMAIN d.d THEN d.d[k] ELSE None

(***************************************************************************)
(* Phone normalizer                                                        *)
(***************************************************************************)
\* str.isdigit: the ASCII digits and other Unicode digits; "^2" stands for
\* the one character U+00B2 (superscript two), for which isdigit() is true.
IsDigit(c) == c \in {"0", "1", "2", "3", "4", "5", "6", "7", "8", "9", "^2"}

StartsWith010(s) == Len(s) >= 3 /\ SubSeq(s, 1, 3) = <<"0", "1", "0">>

\* a plausible slip: the stripped digits are returned when nothing matches
FormatPhoneReturnsDigits(phone_in) ==
  LET phone_cleaned == SelectSeq(PyStr(phone_in), IsDigit)
  IN  IF Len(phone_cleaned) = 11 /\ StartsWith010(phone_cleaned)
      THEN SubSeq(phone_cleaned, 1, 3) \o <<"-">> \o SubSeq(phone_cleaned, 4, 7)
           \o <<"-">> \o SubSeq(phone_cleaned, 8, Len(phone_cleaned))
      ELSE phone_cleaned

\* NotionUploader._format_phone
NotionUploader_format_phone(phone_in) ==
  LET phone_cleaned == SelectSeq(PyStr(phone_in), IsDigit)
  IN  IF Len(phone_cleaned) = 11 /\ StartsWith010(phone_cleaned)
      THEN SubSeq(phone_cleaned, 1, 3) \o <<"-">> \o SubSeq(phone_cleaned, 4, 7)
           \o <<"-">> \o SubSeq(phone_cleaned, 8, Len(phone_cleaned))
      ELSE PyStr(phone_in)

\* _format_phone of "file to notion.py"
_format_phone(phone_in) ==
  LET phone_cleaned == SelectSeq(PyStr(phone_in), IsDigit)
  IN  IF Len(phone_cleaned) = 11 /\ StartsWith010(phone_cleaned)
      THEN SubSeq(phone_cleaned, 1, 3) \o <<"-">> \o SubSeq(phone_cleaned, 4, 7)
           \o <<"-">> \o SubSeq(phone_cleaned, 8, Len(phone_cleaned))
      ELSE PyStr(phone_in)

(***************************************************************************)
(* Results of a call: a value returned, or an exception raised             *)
(***************************************************************************)
Return(v) == [kind |-> "return", value |-> v]
Raise(e)  == [kind |-> "raise", exc |-> e]

(***************************************************************************)
(* Property mapper                                                         *)
(***************************************************************************)
\* db_info as retrieved: property name -> declared type
\* (db_info['properties'][field]['type'])
DbInfo(props) == [tag |-> "db", properties |-> props]

\* the payloads written into properties
Title(text)         == [type |-> "title", content |-> text]
Email(v)            == [type |-> "email", email |-> v]
PhoneNumber(text)   == [type |-> "phone_number", phone_number |-> text]
Select(text)        == [type |-> "select", name |-> text]
RichText(text)      == [type |-> "rich_text", content |-> text]
MultiSelect(names)  == [type |-> "multi_select", names |-> names]

\* Python's  a or b
PyOr(a, b) == IF Truthy(a) THEN a ELSE b

\* d1 updated with d2 (the assignments properties[field] = ...)
Merge(d1, d2) ==
  [k \in DOMAIN d1 \cup DOMAIN d2 |-> IF k \in DOMAIN d2 THEN d2[k] ELSE d1[k]]

\* str.split(','): the segments between commas, empty ones kept
RECURSIVE SplitComma(_)
SplitComma(s) ==
  IF \E n \in 1..Len(s) : s[n] = ","
  THEN LET n == CHOOSE m \in 1..Len(s) :
                  s[m] = "," /\ \A l \in 1..(m - 1) : s[l] # ","
       IN  <<SubSeq(s, 1, n - 1)>> \o SplitComma(SubSeq(s, n + 1, Len(s)))
  ELSE <<s>>

IsSpace(c) == c \in {" ", "\t", "\n"}

\* str.strip(): leading and trailing whitespace removed
RECURSIVE Strip(_)
Strip(s) ==
  IF s = <<>> THEN s
  ELSE IF IsSpace(s[1]) THEN Strip(Tail(s))
  ELSE IF IsSpace(s[Len(s)]) THEN Strip(SubSeq(s, 1, Len(s) - 1))
  ELSE s

\* [v.strip() for v in str(value).split(',')], then  ... for val in values if val
NonEmpty(s) == s # <<>>
\* a plausible slip: the segments are not stripped
MultiSelectNamesUnstripped(value) ==
  SelectSeq(SplitComma(PyStr(value)), NonEmpty)

MultiSelectNames(value) ==
  LET parts  == SplitComma(PyStr(value))
      values == [n \in 1..Len(parts) |-> Strip(parts[n])]
  IN  SelectSeq(values, NonEmpty)

NoProperties == [k \in {} |-> None]

\* select_fields of NotionUploader._build_properties
WebSelectFields(pd) ==
  [f \in {"age", "gender"} |->
     IF f = "age" THEN PyOr(Get(pd, "age_paren"), Get(pd, "age"))
     ELSE Get(pd, "gender")]

\* rich_text_fields of NotionUploader._build_properties
WebRichTextFields(pd) ==
  [f \in {"career", "edu", "company", "duties", "skills", "position"} |->
     IF f = "edu" THEN PyOr(Get(pd, "edu_school"), Get(pd, "edu"))
     ELSE Get(pd, f)]

\* NotionUploader._build_properties(self, person_data), self.db_info = info
NotionUploader_build_properties(info, pd) ==
  IF pd.tag # "dict" THEN Raise("TypeError")
  ELSE IF "name" \notin DOMAIN pd.d THEN Raise("KeyError")
  ELSE
    LET title  == [k \in {"name"} |-> Title(PyStr(pd.d["name"]))]
        email  == IF Truthy(Get(pd, "email"))
                  THEN [k \in {"email"} |-> Email(Get(pd, "email"))]
                  ELSE NoProperties
        phone_ == IF Truthy(Get(pd, "phone"))
                  THEN [k \in {"phone"} |->
                          PhoneNumber(NotionUploader_format_phone(Get(pd, "phone")))]
                  ELSE NoProperties
        select_fields    == WebSelectFields(pd)
        rich_text_fields == WebRichTextFields(pd)
        \* "value and field in self.db_info['properties']" subscripts db_info
        \* for every truthy value
        subscripted == \/ \E f \in DOMAIN select_fields : Truthy(select_fields[f])
                       \/ \E f \in DOMAIN rich_text_fields : Truthy(rich_text_fields[f])
    IN  IF subscripted /\ info = None THEN Raise("TypeError")
        ELSE
          LET declared(f) == info # None /\ f \in DOMAIN info.properties
              selects == [f \in {g \in DOMAIN select_fields :
                                   /\ Truthy(select_fields[g])
                                   /\ declared(g)
                                   /\ info.properties[g] = "select"} |->
                            Select(PyStr(select_fields[f]))]
              riches  == [f \in {g \in DOMAIN rich_text_fields :
                                   /\ Truthy(rich_text_fields[g])
                                   /\ declared(g)
                                   /\ \/ info.properties[g] = "rich_text"
                                      \/ /\ info.properties[g] = "multi_select"
                                         /\ g = "position"} |->
                            IF info.properties[f] = "rich_text"
                            THEN RichText(PyStr(rich_text_fields[f]))
                            ELSE MultiSelect(MultiSelectNames(rich_text_fields[f]))]
          IN  Return(Merge(Merge(Merge(Merge(title, email), phone_), selects), riches))

\* select_fields of _build_properties ("file to notion.py")
ResumeSelectFields(pd) ==
  [f \in {"age", "gender"} |-> Get(pd, f)]

\* rich_text_fields of _build_properties ("file to notion.py")
ResumeRichTextFields(pd) ==
  [f \in {"career", "edu", "company", "duties", "skills", "position"} |-> Get(pd, f)]

\* _build_properties(person_data, db_info) of "file to notion.py"
_build_properties(pd, info) ==
  IF pd.tag # "dict" THEN Raise("AttributeError")
  ELSE
    LET title  == IF Truthy(Get(pd, "name"))
                  THEN [k \in {"name"} |-> Title(PyStr(pd.d["name"]))]
                  ELSE NoProperties
        email  == IF Truthy(Get(pd, "email"))
                  THEN [k \in {"email"} |-> Email(Get(pd, "email"))]
                  ELSE NoProperties
        phone_ == IF Truthy(Get(pd, "phone"))
                  THEN [k \in {"phone"} |->
                          PhoneNumber(_format_phone(Get(pd, "phone")))]
                  ELSE NoProperties
        select_fields    == ResumeSelectFields(pd)
        rich_text_fields == ResumeRichTextFields(pd)
        subscripted == \/ \E f \in DOMAIN select_fields : Truthy(select_fields[f])
                       \/ \E f \in DOMAIN rich_text_fields : Truthy(rich_text_fields[f])
    IN  IF subscripted /\ info = None THEN Raise("TypeError")
        ELSE
          LET declared(f) == info # None /\ f \in DOMAIN info.properties
              selects == [f \in {g \in DOMAIN select_fields :
                                   /\ Truthy(select_fields[g])
                                   /\ declared(g)
                                   /\ info.properties[g] = "select"} |->
                            Select(PyStr(select_fields[f]))]
              riches  == [f \in {g \in DOMAIN rich_text_fields :
                                   /\ Truthy(rich_text_fields[g])
                                   /\ declared(g)
                                   /\ \/ info.properties[g] = "rich_text"
                                      \/ /\ info.properties[g] = "multi_select"
                                         /\ g = "position"} |->
                            IF info.properties[f] = "rich_text"
                            THEN RichText(PyStr(rich_text_fields[f]))
                            ELSE MultiSelect(MultiSelectNames(rich_text_fields[f]))]
          IN  Return(Merge(Merge(Merge(Merge(title, email), phone_), selects), riches))

(***************************************************************************)
(* The remote (notion_client): what a call answers                         *)
(***************************************************************************)
\* the errors a remote call raises (stringified by the callers)
TransportErrors == {"APIResponseError", "RequestTimeoutError"}

\* notion.pages.create answers "ok" or raises one of the errors
CreateOutcomes == {"ok"} \cup TransportErrors

RetrieveCall(db, answer) ==
  [api |-> "databases.retrieve", database_id |-> db, answer |-> answer]
CreateCall(db, properties, answer) ==
  [api |-> "pages.create", database_id |-> db, properties |-> properties,
   answer |-> answer]

PageResponse == Dict([k \in {"object"} |-> Str(<<"p", "a", "g", "e">>)])
PyFalse      == [tag |-> "bool", b |-> FALSE]

(***************************************************************************)
(* NotionUploader                                                          *)
(***************************************************************************)
\* the messages of the f-strings and literals
ConnectedMsg        == [text |-> "connected"]
ConnFailedMsg(e)    == [text |-> "connection_failed", error |-> e]
NoNameMsg           == [text |-> "no_name"]
UploadedMsg(name_)  == [text |-> "uploaded", name |-> name_]
UploadFailedMsg(e)  == [text |-> "upload_failed", error |-> e]

\* NotionUploader.__init__
NotionUploader(token, dbid) ==
  [token |-> token, database_id |-> dbid, db_info |-> None]

\* a plausible slip: the failure is not caught
TestConnectionPropagates(self, retrieved) ==
  IF retrieved.tag = "db"
  THEN [ret   |-> Return(<<TRUE, ConnectedMsg>>),
        self  |-> [self EXCEPT !.db_info = retrieved],
        calls |-> <<RetrieveCall(self.database_id, "ok")>>]
  ELSE [ret   |-> Raise(retrieved.exc),
        self  |-> self,
        calls |-> <<RetrieveCall(self.database_id, retrieved.exc)>>]

\* NotionUploader.test_connection; retrieved is what databases.retrieve
\* answers: a DbInfo, or [tag |-> "error", exc |-> e] when it raises
test_connection(self, retrieved) ==
  IF retrieved.tag = "db"
  THEN [ret   |-> Return(<<TRUE, ConnectedMsg>>),
        self  |-> [self EXCEPT !.db_info = retrieved],
        calls |-> <<RetrieveCall(self.database_id, "ok")>>]
  ELSE [ret   |-> Return(<<FALSE, ConnFailedMsg(retrieved.exc)>>),
        self  |-> self,
        calls |-> <<RetrieveCall(self.database_id, retrieved.exc)>>]

\* a plausible slip: the page is created before the name is looked at
UploadPersonTryCreatesFirst(self, pd, answer) ==
  IF pd.tag # "dict"
  THEN [ret |-> Raise("AttributeError"), calls |-> <<>>, self |-> self]
  ELSE
    LET properties == _build_properties(pd, self.db_info)
    IN  IF properties.kind = "raise"
        THEN [ret |-> properties, calls |-> <<>>, self |-> self]
        ELSE [ret   |-> IF answer # "ok" THEN Raise(answer)
                        ELSE IF ~Truthy(Get(pd, "name"))
                        THEN Return(<<FALSE, NoNameMsg>>)
                        ELSE Return(<<TRUE, UploadedMsg(PyStr(pd.d["name"]))>>),
              calls |-> <<CreateCall(self.database_id, properties.value, answer)>>,
              self  |-> self]

\* the try block of NotionUploader.upload_person
UploadPersonTry(self, pd, answer) ==
  IF pd.tag # "dict"
  THEN [ret |-> Raise("AttributeError"), calls |-> <<>>, self |-> self]
  ELSE IF ~Truthy(Get(pd, "name"))
  THEN [ret |-> Return(<<FALSE, NoNameMsg>>), calls |-> <<>>, self |-> self]
  ELSE
    LET properties == NotionUploader_build_properties(self.db_info, pd)
    IN  IF properties.kind = "raise"
        THEN [ret |-> properties, calls |-> <<>>, self |-> self]
        ELSE [ret   |-> IF answer = "ok"
                        THEN Return(<<TRUE, UploadedMsg(PyStr(pd.d["name"]))>>)
                        ELSE Raise(answer),
              calls |-> <<CreateCall(self.database_id, properties.value, answer)>>,
              self  |-> self]

\* a plausible slip: no except clause
UploadPersonUncaught(self, pd, answer) == UploadPersonTry(self, pd, answer)

\* a plausible slip: the schema is fetched again for every record
UploadPersonRefetchesSchema(self, pd, answer) ==
  LET r == UploadPersonTry(self, pd, answer)
      c == <<RetrieveCall(self.database_id, "ok")>> \o r.calls
  IN  IF r.ret.kind = "raise"
      THEN [ret |-> Return(<<FALSE, UploadFailedMsg(r.ret.exc)>>), calls |-> c,
            self |-> r.self]
      ELSE [ret |-> r.ret, calls |-> c, self |-> r.self]

\* NotionUploader.upload_person: the try block and its except clause; self is
\* the uploader after the call
upload_person(self, pd, answer) ==
  LET r == UploadPersonTry(self, pd, answer)
  IN  IF r.ret.kind = "raise"
      THEN [ret |-> Return(<<FALSE, UploadFailedMsg(r.ret.exc)>>), calls |-> r.calls,
            self |-> r.self]
      ELSE r

(***************************************************************************)
(* upload_to_notion of "file to notion.py"                                 *)
(***************************************************************************)
NoDataError            == [text |-> "no_data"]
DbInfoFailedError(e)   == [text |-> "db_info_failed", error |-> e]
NotionCallError(e)     == [text |-> "notion_call_failed", error |-> e]

\* upload_to_notion(data, notion_api_key, notion_db_id)
upload_to_notion(data_, notion_db_id, retrieved, answer) ==
  IF ~Truthy(data_)
  THEN [ret |-> Return(PyFalse), calls |-> <<>>, errors |-> <<NoDataError>>]
  ELSE IF retrieved.tag # "db"
  THEN [ret    |-> Return(None),
        calls  |-> <<RetrieveCall(notion_db_id, retrieved.exc)>>,
        errors |-> <<DbInfoFailedError(retrieved.exc)>>]
  ELSE
    LET properties == _build_properties(data_, retrieved)
    IN  IF properties.kind = "raise"
        THEN [ret    |-> Return(None),
              calls  |-> <<RetrieveCall(notion_db_id, "ok")>>,
              errors |-> <<NotionCallError(properties.exc)>>]
        ELSE [ret    |-> IF answer = "ok" THEN Return(PageResponse) ELSE Return(None),
              calls  |-> <<RetrieveCall(notion_db_id, "ok"),
                           CreateCall(notion_db_id, properties.value, answer)>>,
              errors |-> IF answer = "ok" THEN <<>> ELSE <<NotionCallError(answer)>>]

(***************************************************************************)
(* Inputs                                                                  *)
(***************************************************************************)
MaxOptional == 1   \* optional keys a generated record carries
MaxHead     == 4   \* characters of a generated phone number's head
MaxBatch    == 2   \* records of a JSON list
MaxPages    == 3   \* records submitted to the remote in one session
MaxPosition == 4   \* characters of a generated position value

OptionalKeys     == {"email", "phone", "age_paren", "age", "gender", "career",
                     "edu_school", "edu", "company", "duties", "skills", "position"}
SchemaFields     == {"name", "email", "phone", "age", "gender", "career", "edu",
                     "company", "duties", "skills", "position"}
Kinds            == {"title", "email", "phone_number", "select", "multi_select",
                     "rich_text", "number"}

PhoneSample      == <<"0", "1", "0", "1", "2", "3", "4", "5", "6", "7", "8">>
PositionSample   == <<"B", ",", " ", "F", " ", ",", " ", " ">>

SampleValue(k) ==
  CASE k = "email"      -> <<"e", "@", "x">>
    [] k = "phone"      -> PhoneSample
    [] k = "age_paren"  -> <<"1", "9", "9", "0">>
    [] k = "age"        -> <<"3", "3">>
    [] k = "gender"     -> <<"M">>
    [] k = "career"     -> <<"5", "y">>
    [] k = "edu_school" -> <<"S", "-", "C">>
    [] k = "edu"        -> <<"C">>
    [] k = "company"    -> <<"K">>
    [] k = "duties"     -> <<"D">>
    [] k = "skills"     -> <<"P", ",", "A">>
    [] k = "position"   -> PositionSample

FieldValues(k) == {None, Str(<<>>), Str(SampleValue(k))}

One(k, v) == [x \in {k} |-> v]

RECURSIVE OptionalParts(_)
OptionalParts(n) ==
  IF n = 0 THEN {NoProperties}
  ELSE LET prev == OptionalParts(n - 1)
       IN  prev \cup
           UNION { UNION { { Merge(part, One(k, v)) : v \in FieldValues(k) } :
                           k \in OptionalKeys \ DOMAIN part } : part \in prev }

NameParts ==
  {NoProperties} \cup { One("name", v) : v \in {None, Str(<<>>), Str(<<"A">>)} }

GeneratedRecords ==
  { Dict(Merge(n, part)) : n \in NameParts, part \in OptionalParts(MaxOptional) }

\* the single-person sample of json_notion_webapp.py main()
SampleRecord ==
  Dict([k \in (OptionalKeys \ {"age", "edu"}) \cup {"name"} |->
          IF k = "name" THEN Str(<<"H">>)
          ELSE IF k = "phone"
               THEN Str(<<"0", "1", "0", "-", "1", "2", "3", "4", "-", "5", "6", "7", "8">>)
          ELSE Str(SampleValue(k))])

\* both spellings of the age and education keys at once; a numeric name
ExtraRecords ==
  { SampleRecord,
    Dict([k \in {"name", "age_paren", "age", "edu_school", "edu"} |->
            IF k = "name" THEN Str(<<"A">>) ELSE Str(SampleValue(k))]),
    Dict([k \in {"name", "phone", "position"} |->
            IF k = "name" THEN Num(7)
            ELSE IF k = "phone" THEN Num(1012345678) ELSE Str(SampleValue(k))]) }

\* list elements and inputs that are no JSON object
Malformed == {None, Str(<<"x">>), Num(0), List(<<>>)}

\* the properties the sidebar of "file to notion.py" asks the database to have
FullSchema ==
  DbInfo([f \in SchemaFields |->
            CASE f = "name"               -> "title"
              [] f = "email"              -> "email"
              [] f = "phone"              -> "phone_number"
              [] f \in {"age", "gender"}  -> "select"
              [] f = "position"           -> "multi_select"
              [] OTHER                    -> "rich_text"])

\* a workspace whose fields are all plain text
TextSchema == DbInfo([f \in SchemaFields |-> IF f = "name" THEN "title" ELSE "rich_text"])

TitleOnlySchema == DbInfo(One("name", "title"))

SingleFieldSchemas == { DbInfo(One(f, k)) : f \in SchemaFields, k \in Kinds }

MapperRecords == GeneratedRecords \cup ExtraRecords
MapperSchemas == {DbInfo(NoProperties), FullSchema, TextSchema} \cup SingleFieldSchemas

CallRecords   == GeneratedRecords \cup ExtraRecords \cup Malformed
CallSchemas   == {None, TitleOnlySchema, FullSchema, TextSchema}

HeadChars == {"0", "1", "-"}
RECURSIVE Heads(_)
Heads(n) ==
  IF n = 0 THEN {<<>>}
  ELSE LET prev == Heads(n - 1)
       IN  prev \cup { Append(h, c) : h \in { g \in prev : Len(g) = n - 1 }, c \in HeadChars }

PhoneTails ==
  { <<>>,
    <<"2", "3", "4", "5", "6", "7", "8">>,
    <<"1", "2", "3", "4", "5", "6", "7", "8">>,
    <<"1", "2", "3", "4", "-", "5", "6", "7", "8">>,
    <<"1", "2", "3", "4", " ", "5", "6", "7", "^2">>,
    <<"(", "2", ")", "3", "4", "5", "6", "7", "8", "9">>,
    <<"a", "b">> }

PhoneInputs == { Str(h \o t) : h \in Heads(MaxHead), t \in PhoneTails }

(***************************************************************************)
(* Initial values of the three groups of variables                         *)
(***************************************************************************)
RemoteDbs == {"db1", "db2"}

SessionStart ==
  /\ notion_token = ""
  /\ database_id = ""
  /\ session_state = [connection_verified |-> FALSE, uploader |-> None]
  /\ data = None
  /\ pc = "idle"
  /\ i = 0
  /\ total = 0
  /\ success_count = 0
  /\ log_messages = <<>>
  /\ shown = <<>>
  /\ pages = [db \in RemoteDbs |-> 0]
  /\ remote_calls = <<>>
  /\ returned_ok = 0
  /\ event = "none"

CallStart ==
  /\ person_data = None
  /\ db_info = None
  /\ op = "none"
  /\ out = None

PhoneStart ==
  /\ phone = Str(<<>>)
  /\ formatted = None

(***************************************************************************)
(* The phone normalizer on its inputs                                      *)
(***************************************************************************)
InitPhone ==
  /\ SessionStart
  /\ CallStart
  /\ phone \in PhoneInputs
  /\ formatted = None

\* both copies applied to the input
FormatPhone ==
  /\ formatted = None
  /\ formatted' = [web    |-> NotionUploader_format_phone(phone),
                    resume |-> _format_phone(phone)]
  /\ UNCHANGED <<phone, sessionVars, callVars>>

\* the output handed back as the next input
FormatAgain ==
  /\ formatted # None
  /\ phone' = Str(formatted.web)
  /\ phone' # phone
  /\ formatted' = None
  /\ UNCHANGED <<sessionVars, callVars>>

NextPhone == FormatPhone \/ FormatAgain

SpecPhone == InitPhone /\ [][NextPhone]_vars

(***************************************************************************)
(* The two property mappers on their inputs                                *)
(***************************************************************************)
InitMapper ==
  /\ SessionStart
  /\ PhoneStart
  /\ person_data \in MapperRecords
  /\ db_info \in MapperSchemas
  /\ op = "none"
  /\ out = None

MapWeb ==
  /\ op = "none"
  /\ op' = "NotionUploader._build_properties"
  /\ out' = [ret |-> NotionUploader_build_properties(db_info, person_data)]
  /\ UNCHANGED <<person_data, db_info, sessionVars, phoneVars>>

MapResume ==
  /\ op = "none"
  /\ op' = "_build_properties"
  /\ out' = [ret |-> _build_properties(person_data, db_info)]
  /\ UNCHANGED <<person_data, db_info, sessionVars, phoneVars>>

NextMapper == MapWeb \/ MapResume

SpecMapper == InitMapper /\ [][NextMapper]_vars

(***************************************************************************)
(* One call of an upload entry point or of the connection test             *)
(***************************************************************************)
InitCall ==
  /\ SessionStart
  /\ PhoneStart
  /\ person_data \in CallRecords
  /\ db_info \in CallSchemas
  /\ op = "none"
  /\ out = None

\* what databases.retrieve can answer when the database holds db_info
\* (None: there is no such database, or no access to it)
RetrieveAnswers ==
  (IF db_info = None THEN {} ELSE {db_info})
    \cup { [tag |-> "error", exc |-> e] : e \in TransportErrors }

\* uploader.upload_person(person_data) on an uploader that cached db_info
CallUploadPerson ==
  /\ op = "none"
  /\ \E answer \in CreateOutcomes :
       LET self == [NotionUploader("tok", "db1") EXCEPT !.db_info = db_info]
           r    == upload_person(self, person_data, answer)
       IN  /\ op' = "upload_person"
           /\ out' = [ret |-> r.ret, calls |-> r.calls, errors |-> <<>>,
                      cached |-> r.self.db_info]
  /\ UNCHANGED <<person_data, db_info, sessionVars, phoneVars>>

\* upload_to_notion(person_data, key, "db1")
CallUploadToNotion ==
  /\ op = "none"
  /\ \E retrieved \in RetrieveAnswers, answer \in CreateOutcomes :
       LET r == upload_to_notion(person_data, "db1", retrieved, answer)
       IN  /\ op' = "upload_to_notion"
           /\ out' = [ret |-> r.ret, calls |-> r.calls, errors |-> r.errors,
                      cached |-> None]
  /\ UNCHANGED <<person_data, db_info, sessionVars, phoneVars>>

\* NotionUploader(token, "db1").test_connection()
CallTestConnection ==
  /\ op = "none"
  /\ \E retrieved \in RetrieveAnswers :
       LET r == test_connection(NotionUploader("tok", "db1"), retrieved)
       IN  /\ op' = "test_connection"
           /\ out' = [ret |-> r.ret, calls |-> r.calls, errors |-> <<>>,
                      cached |-> r.self.db_info]
  /\ UNCHANGED <<person_data, db_info, sessionVars, phoneVars>>

NextCall == CallUploadPerson \/ CallUploadToNotion \/ CallTestConnection

SpecCall == InitCall /\ [][NextCall]_vars

(***************************************************************************)
(* The web page: json_notion_webapp.py main(), one script run per          *)
(* interaction                                                             *)
(***************************************************************************)
TokenInputs == {"", "tok1", "bad"}
DbIdInputs  == {"", "db1", "db2"}

\* the remote: the token with access, and each database's properties
ValidTokens      == {"tok1"}
RemoteSchema(db) == IF db = "db1" THEN FullSchema ELSE TitleOnlySchema

\* what databases.retrieve can answer to this token for this database
SessionRetrieveAnswers(token, db) ==
  (IF token \in ValidTokens /\ db \in RemoteDbs THEN {RemoteSchema(db)} ELSE {})
    \cup { [tag |-> "error", exc |-> e] : e \in TransportErrors }

\* what pages.create can answer for this database
SessionCreateAnswers(db) ==
  (IF db \in RemoteDbs THEN {"ok"} ELSE {}) \cup {"APIResponseError"}

NameOnlyRecord == Dict(One("name", Str(<<"A">>)))
NoNameRecord   == Dict(One("email", Str(SampleValue("email"))))

\* what the JSON input can parse to: nothing, one object, a list, a scalar
ListElements == {NameOnlyRecord, NoNameRecord, SampleRecord, Str(<<"x">>)}
RECURSIVE ListsOf(_)
ListsOf(n) ==
  IF n = 0 THEN {<<>>}
  ELSE LET prev == ListsOf(n - 1)
       IN  prev \cup { Append(l, e) : l \in { m \in prev : Len(m) = n - 1 },
                                       e \in ListElements }
DataInputs ==
  {None, Dict(EmptyDict), NameOnlyRecord, NoNameRecord, SampleRecord, Str(<<"x">>)}
    \cup { List(l) : l \in ListsOf(MaxBatch) }

\* the records a click on upload would submit
RecordCount(d) == IF d.tag = "list" THEN Len(d.items) ELSE 1

PagesTotal == pages["db1"] + pages["db2"]

\* the remote after the calls: a page more for each create that answered ok
PagesAfter(calls_) ==
  [db \in RemoteDbs |->
     pages[db] + Len(SelectSeq(calls_, LAMBDA c : /\ c.api = "pages.create"
                                                  /\ c.answer = "ok"
                                                  /\ c.database_id = db))]

\* the handler's local variables, gone when the script runs again
NoLocals ==
  /\ i' = 0
  /\ total' = 0
  /\ success_count' = 0
  /\ log_messages' = <<>>

\* st.text_input for the token: a new value, and the script runs again
EditToken ==
  /\ pc = "idle"
  /\ \E t \in TokenInputs : notion_token' = t
  /\ shown' = <<>>
  /\ remote_calls' = <<>>
  /\ event' = "edit"
  /\ NoLocals
  /\ UNCHANGED <<database_id, session_state, data, pc, pages, returned_ok,
                 callVars, phoneVars>>

\* st.text_input for the database id
EditDatabaseId ==
  /\ pc = "idle"
  /\ \E d \in DbIdInputs : database_id' = d
  /\ shown' = <<>>
  /\ remote_calls' = <<>>
  /\ event' = "edit"
  /\ NoLocals
  /\ UNCHANGED <<notion_token, session_state, data, pc, pages, returned_ok,
                 callVars, phoneVars>>

\* the file uploader or the text area: data is what the input parses to
EditData ==
  /\ pc = "idle"
  /\ \E d \in DataInputs : data' = d
  /\ shown' = <<>>
  /\ remote_calls' = <<>>
  /\ event' = "edit"
  /\ NoLocals
  /\ UNCHANGED <<notion_token, database_id, session_state, pc, pages, returned_ok,
                 callVars, phoneVars>>

\* a plausible slip: the session is marked verified whatever the test says
ClickConnectionTestAlwaysVerified ==
  /\ pc = "idle"
  /\ event' = "test"
  /\ NoLocals
  /\ IF notion_token = "" \/ database_id = ""
     THEN /\ shown' = <<[level |-> "error", message |-> [text |-> "need_both"]]>>
          /\ remote_calls' = <<>>
          /\ UNCHANGED session_state
     ELSE \E retrieved \in SessionRetrieveAnswers(notion_token, database_id) :
            LET r == test_connection(NotionUploader(notion_token, database_id), retrieved)
            IN  /\ shown' = <<[level   |-> IF r.ret.value[1] THEN "success" ELSE "error",
                               message |-> r.ret.value[2]]>>
                /\ remote_calls' = r.calls
                /\ session_state' = [connection_verified |-> TRUE, uploader |-> r.self]
  /\ UNCHANGED <<notion_token, database_id, data, pc, pages, returned_ok,
                 callVars, phoneVars>>

\* a plausible slip: the new uploader is stored whatever the test says
ClickConnectionTestStoresAlways ==
  /\ pc = "idle"
  /\ event' = "test"
  /\ NoLocals
  /\ IF notion_token = "" \/ database_id = ""
     THEN /\ shown' = <<[level |-> "error", message |-> [text |-> "need_both"]]>>
          /\ remote_calls' = <<>>
          /\ UNCHANGED session_state
     ELSE \E retrieved \in SessionRetrieveAnswers(notion_token, database_id) :
            LET r == test_connection(NotionUploader(notion_token, database_id), retrieved)
            IN  /\ shown' = <<[level   |-> IF r.ret.value[1] THEN "success" ELSE "error",
                               message |-> r.ret.value[2]]>>
                /\ remote_calls' = r.calls
                /\ session_state' = [connection_verified |-> r.ret.value[1],
                                      uploader |-> r.self]
  /\ UNCHANGED <<notion_token, database_id, data, pc, pages, returned_ok,
                 callVars, phoneVars>>

\* the connection test button
ClickConnectionTest ==
  /\ pc = "idle"
  /\ event' = "test"
  /\ NoLocals
  /\ IF notion_token = "" \/ database_id = ""
     THEN /\ shown' = <<[level |-> "error", message |-> [text |-> "need_both"]]>>
          /\ remote_calls' = <<>>
          /\ UNCHANGED session_state
     ELSE \E retrieved \in SessionRetrieveAnswers(notion_token, database_id) :
            LET r == test_connection(NotionUploader(notion_token, database_id), retrieved)
            IN  /\ shown' = <<[level   |-> IF r.ret.value[1] THEN "success" ELSE "error",
                               message |-> r.ret.value[2]]>>
                /\ remote_calls' = r.calls
                /\ IF r.ret.value[1]
                   THEN session_state' = [connection_verified |-> TRUE,
                                          uploader |-> r.self]
                   ELSE session_state' = [session_state EXCEPT
                                            !.connection_verified = FALSE]
  /\ UNCHANGED <<notion_token, database_id, data, pc, pages, returned_ok,
                 callVars, phoneVars>>

\* disabled= of the upload button
upload_disabled == ~(session_state.connection_verified /\ data # None)

\* the upload button: a single record is uploaded at once, a list starts
\* the loop
ClickUpload ==
  /\ pc = "idle"
  /\ ~upload_disabled
  /\ PagesTotal + RecordCount(data) <= MaxPages
  /\ event' = "upload"
  /\ LET uploader == session_state.uploader
     IN  IF ~(uploader # None /\ Truthy(data))
         THEN /\ shown' = <<>>
              /\ remote_calls' = <<>>
              /\ NoLocals
              /\ UNCHANGED <<pc, pages, returned_ok, session_state>>
         ELSE IF data.tag = "dict"
         THEN \E answer \in SessionCreateAnswers(uploader.database_id) :
                LET r == upload_person(uploader, data, answer)
                IN  /\ shown' = <<[level   |-> IF r.ret.value[1] THEN "success"
                                               ELSE "error",
                                   message |-> r.ret.value[2]]>>
                    /\ pages' = PagesAfter(r.calls)
                    /\ remote_calls' = r.calls
                    /\ session_state' = [session_state EXCEPT !.uploader = r.self]
                    /\ returned_ok' = returned_ok + (IF r.ret.value[1] THEN 1 ELSE 0)
                    /\ NoLocals
                    /\ UNCHANGED pc
         ELSE IF data.tag = "list"
         THEN /\ pc' = "batch"
              /\ total' = Len(data.items)
              /\ success_count' = 0
              /\ log_messages' = <<>>
              /\ i' = 0
              /\ shown' = <<>>
              /\ remote_calls' = <<>>
              /\ UNCHANGED <<pages, returned_ok, session_state>>
         ELSE /\ shown' = <<>>
              /\ remote_calls' = <<>>
              /\ NoLocals
              /\ UNCHANGED <<pc, pages, returned_ok, session_state>>
  /\ UNCHANGED <<notion_token, database_id, data, callVars, phoneVars>>

\* a plausible slip: the loop breaks at the first failure
BatchStepStopsOnFailure ==
  /\ pc = "batch"
  /\ i < Len(data.items)
  /\ LET uploader == session_state.uploader
     IN  \E answer \in SessionCreateAnswers(uploader.database_id) :
           LET r == upload_person(uploader, data.items[i + 1], answer)
           IN  /\ IF r.ret.value[1]
                  THEN /\ success_count' = success_count + 1
                       /\ log_messages' = Append(log_messages,
                                                  [mark |-> "ok", message |-> r.ret.value[2]])
                       /\ i' = i + 1
                  ELSE /\ success_count' = success_count
                       /\ log_messages' = Append(log_messages,
                                                  [mark |-> "fail", message |-> r.ret.value[2]])
                       /\ i' = Len(data.items)
               /\ pages' = PagesAfter(r.calls)
               /\ remote_calls' = remote_calls \o r.calls
               /\ session_state' = [session_state EXCEPT !.uploader = r.self]
               /\ returned_ok' = returned_ok + (IF r.ret.value[1] THEN 1 ELSE 0)
  /\ UNCHANGED <<notion_token, database_id, data, pc, total, shown, event,
                 callVars, phoneVars>>

\* a plausible slip: every processed record is counted
BatchStepCountsAll ==
  /\ pc = "batch"
  /\ i < Len(data.items)
  /\ LET uploader == session_state.uploader
     IN  \E answer \in SessionCreateAnswers(uploader.database_id) :
           LET r == upload_person(uploader, data.items[i + 1], answer)
           IN  /\ success_count' = success_count + 1
               /\ IF r.ret.value[1]
                  THEN log_messages' = Append(log_messages,
                                              [mark |-> "ok", message |-> r.ret.value[2]])
                  ELSE log_messages' = Append(log_messages,
                                              [mark |-> "fail", message |-> r.ret.value[2]])
               /\ pages' = PagesAfter(r.calls)
               /\ remote_calls' = remote_calls \o r.calls
               /\ session_state' = [session_state EXCEPT !.uploader = r.self]
               /\ returned_ok' = returned_ok + (IF r.ret.value[1] THEN 1 ELSE 0)
  /\ i' = i + 1
  /\ UNCHANGED <<notion_token, database_id, data, pc, total, shown, event,
                 callVars, phoneVars>>

\* one iteration of  for i, person_data in enumerate(data)
BatchStep ==
  /\ pc = "batch"
  /\ i < Len(data.items)
  /\ LET uploader == session_state.uploader
     IN  \E answer \in SessionCreateAnswers(uploader.database_id) :
           LET r == upload_person(uploader, data.items[i + 1], answer)
           IN  /\ IF r.ret.value[1]
                  THEN /\ success_count' = success_count + 1
                       /\ log_messages' = Append(log_messages,
                                                  [mark |-> "ok", message |-> r.ret.value[2]])
                  ELSE /\ success_count' = success_count
                       /\ log_messages' = Append(log_messages,
                                                  [mark |-> "fail", message |-> r.ret.value[2]])
               /\ pages' = PagesAfter(r.calls)
               /\ remote_calls' = remote_calls \o r.calls
               /\ session_state' = [session_state EXCEPT !.uploader = r.self]
               /\ returned_ok' = returned_ok + (IF r.ret.value[1] THEN 1 ELSE 0)
  /\ i' = i + 1
  /\ UNCHANGED <<notion_token, database_id, data, pc, total, shown, event,
                 callVars, phoneVars>>

\* after the loop: the summary
BatchFinish ==
  /\ pc = "batch"
  /\ i = Len(data.items)
  /\ shown' = <<[level   |-> IF success_count = total THEN "success" ELSE "warning",
                 message |-> [text |-> "summary", success_count |-> success_count,
                              total |-> total]]>>
  /\ pc' = "idle"
  /\ UNCHANGED <<notion_token, database_id, session_state, data, i, total,
                 success_count, log_messages, pages, remote_calls, returned_ok,
                 event, callVars, phoneVars>>

Init == SessionStart /\ CallStart /\ PhoneStart

Next ==
  \/ EditToken
  \/ EditDatabaseId
  \/ EditData
  \/ ClickConnectionTest
  \/ ClickUpload
  \/ BatchStep
  \/ BatchFinish

Spec == Init /\ [][Next]_vars

(***************************************************************************)
(* Claims                                                                  *)
(***************************************************************************)
BatchFinished ==
  /\ event = "upload"
  /\ pc = "idle"
  /\ data.tag = "list"
  /\ data.items # <<>>

\* the log entry the loop may record for one input record
EntryFor(rec, e) ==
  IF rec.tag # "dict"
  THEN e = [mark |-> "fail", message |-> UploadFailedMsg("AttributeError")]
  ELSE IF ~Truthy(Get(rec, "name"))
  THEN e = [mark |-> "fail", message |-> NoNameMsg]
  ELSE \/ e = [mark |-> "ok", message |-> UploadedMsg(PyStr(rec.d["name"]))]
       \/ /\ e.mark = "fail"
          /\ \E x \in TransportErrors : e.message = UploadFailedMsg(x)

CountOk(log) == Len(SelectSeq(log, LAMBDA e : e.mark = "ok"))

\* C1: the batch loop never stops early: while it runs it has logged one
\* entry per record processed; when it has finished,
\* the log holds exactly one entry per input record, entry k being the
\* outcome of input record k, whatever the outcomes were.
C1_BatchLogComplete ==
  /\ pc = "batch"
       => /\ data.tag = "list"
          /\ total = Len(data.items)
          /\ i <= total
          /\ Len(log_messages) = i
  /\ BatchFinished => Len(log_messages) = Len(data.items)
  /\ log_messages # <<>>
       => /\ data.tag = "list"
          /\ Len(log_messages) <= Len(data.items)
          /\ \A k \in 1..Len(log_messages) : EntryFor(data.items[k], log_messages[k])

\* a finished batch with a failure before a success
C1_Witness ==
  /\ BatchFinished
  /\ Len(log_messages) = 2
  /\ log_messages[1].mark = "fail"
  /\ log_messages[2].mark = "ok"

\* C2: at every step of the batch loop and at its end the success count is
\* the number of success entries logged so far; a record without a name is
\* logged as a failure and not counted; the summary shows that count over
\* the number of input records.
C2_SuccessCountMatchesLog ==
  /\ success_count = CountOk(log_messages)
  /\ \A k \in 1..Len(log_messages) :
       (data.items[k].tag = "dict" /\ ~Truthy(Get(data.items[k], "name")))
         => log_messages[k].mark = "fail"
  /\ BatchFinished
       => /\ shown # <<>>
          /\ shown[1].message = [text |-> "summary",
                                  success_count |-> CountOk(log_messages),
                                  total |-> Len(data.items)]
          /\ (shown[1].level = "success") <=> (CountOk(log_messages) = Len(data.items))

\* a finished batch of a nameless record and an uploaded one
C2_Witness ==
  /\ BatchFinished
  /\ data.items = <<NoNameRecord, NameOnlyRecord>>
  /\ success_count = 1
  /\ shown[1].level = "warning"

SchemaPopulated(uploader) ==
  /\ uploader # None
  /\ uploader.db_info # None
  /\ uploader.db_info.tag = "db"
  /\ DOMAIN uploader.db_info.properties # {}

\* C6: in every session state the upload action is enabled only while
\* connection_verified is true, connection_verified implies that the session
\* holds an uploader whose schema a successful retrieval populated, and the
\* loop that invokes the mapper runs only on such an uploader.
C6_MapperOnlyAfterSchema ==
  /\ ~upload_disabled => session_state.connection_verified
  /\ session_state.connection_verified => SchemaPopulated(session_state.uploader)
  /\ (pc = "batch" \/ (event = "upload" /\ shown # <<>>))
       => /\ session_state.connection_verified
          /\ SchemaPopulated(session_state.uploader)

\* an upload went through on a verified session connected to the second database
C6_Witness ==
  /\ event = "upload"
  /\ shown # <<>>
  /\ shown[1].level = "success"
  /\ session_state.connection_verified
  /\ session_state.uploader.database_id = "db2"

\* C7 (as stated): whenever the upload action is triggered with a single
\* record, the caller is shown a result for it, and a failure when the record
\* has no name or no fields at all.
C7_SingleRecordFailureReported ==
  (event = "upload" /\ pc = "idle" /\ data.tag = "dict")
    => /\ shown # <<>>
       /\ ~Truthy(Get(data, "name")) => shown[1].level = "error"

\* C8: the remote pages created are as many as the upload_person calls that
\* returned success: a successful call creates one page, a failed call none,
\* and nothing suppresses a record submitted again.
C8_OnePagePerSuccess ==
  /\ PagesTotal = returned_ok
  /\ (event = "upload" /\ pc = "idle" /\ data.tag = "dict" /\ shown # <<>>)
       => (shown[1].level = "success" => returned_ok >= 1)

\* the same single record uploaded again and again
C8_Witness ==
  /\ data = NameOnlyRecord
  /\ event = "upload"
  /\ pages["db1"] = MaxPages
  /\ returned_ok = MaxPages

CreateCalls(cs) == SelectSeq(cs, LAMBDA c : c.api = "pages.create")
RetrievalFailed ==
  /\ op \in {"test_connection", "upload_to_notion"}
  /\ out.calls # <<>>
  /\ out.calls[1].api = "databases.retrieve"
  /\ out.calls[1].answer # "ok"

NameMissing(pd) == pd.tag = "dict" /\ Get(pd, "name") = None

\* C3 (as stated): for a record whose name is null or absent, every upload
\* entry point (upload_person and upload_to_notion) ends in a failure and
\* attempts no remote create-page call, whatever the other fields are.
C3_NoNameNoCreateCall ==
  (op \in {"upload_person", "upload_to_notion"} /\ NameMissing(person_data))
    => /\ CreateCalls(out.calls) = <<>>
       /\ out.ret.kind = "return"
       /\ IF op = "upload_person"
          THEN out.ret.value[1] = FALSE
          ELSE ~Truthy(out.ret.value)

\* C4: upload_person never raises: it returns a (success, message) pair;
\* success is true, with a message holding the record's name, only when
\* pages.create was called and returned normally; when pages.create raises,
\* or the record is malformed, success is false and the message carries the
\* stringified error; a record without a usable name gets the validation
\* message.
C4_UploadPersonNeverRaises ==
  op = "upload_person" =>
    /\ out.ret.kind = "return"
    /\ out.ret.value[1] \in BOOLEAN
    /\ LET ok      == out.ret.value[1]
           message == out.ret.value[2]
           creates == CreateCalls(out.calls)
       IN  /\ Len(creates) <= 1
           /\ ok <=> (creates # <<>> /\ creates[1].answer = "ok")
           /\ ok => message = UploadedMsg(PyStr(person_data.d["name"]))
           /\ (creates # <<>> /\ creates[1].answer # "ok")
                => message = UploadFailedMsg(creates[1].answer)
           /\ person_data.tag # "dict" => message = UploadFailedMsg("AttributeError")
           /\ (~ok /\ creates = <<>> /\ person_data.tag = "dict")
                => \/ message = NoNameMsg /\ ~Truthy(Get(person_data, "name"))
                   \/ message = UploadFailedMsg("TypeError") /\ db_info = None

\* a record with a name whose create-page call raised
C4_Witness ==
  /\ op = "upload_person"
  /\ CreateCalls(out.calls) # <<>>
  /\ out.calls[1].answer = "RequestTimeoutError"
  /\ out.ret = Return(<<FALSE, UploadFailedMsg("RequestTimeoutError")>>)

\* C5 (as stated): when the schema retrieval fails, the failure is not caught:
\* it propagates to the caller as an exception carrying the transport error.
C5_RetrievalFailurePropagates ==
  RetrievalFailed =>
    /\ out.ret.kind = "raise"
    /\ out.ret.exc = out.calls[1].answer

\* C5 (amended): when the schema retrieval fails, the failure is caught where
\* it happens and turned into a return value: test_connection returns
\* (False, message carrying the stringified error) and leaves db_info unset;
\* upload_to_notion reports the error, returns None and neither maps nor
\* creates a page.
C5_RetrievalFailureReturned ==
  RetrievalFailed =>
    /\ out.ret.kind = "return"
    /\ Len(out.calls) = 1
    /\ op = "test_connection"
         => /\ out.ret.value = <<FALSE, ConnFailedMsg(out.calls[1].answer)>>
            /\ out.cached = None
    /\ op = "upload_to_notion"
         => /\ out.ret.value = None
            /\ out.errors = <<DbInfoFailedError(out.calls[1].answer)>>

\* a connection test whose retrieval failed
C5_Witness ==
  /\ RetrievalFailed
  /\ op = "test_connection"
  /\ out.ret.value[1] = FALSE

PhoneDigits == SelectSeq(phone.s, IsDigit)

\* C9: if the input's digits number exactly 11 and start with 010, each copy
\* of the normalizer returns them as 3-4-4 groups joined by hyphens, so the
\* output's digits are the input's digits; for every other input, the empty
\* string included, each copy returns the input itself; the copies agree.
C9_PhoneNormalizer ==
  formatted # None =>
    /\ formatted.web = formatted.resume
    /\ \A o \in {formatted.web, formatted.resume} :
         IF Len(PhoneDigits) = 11 /\ SubSeq(PhoneDigits, 1, 3) = <<"0", "1", "0">>
         THEN /\ Len(o) = 13
              /\ o[4] = "-"
              /\ o[9] = "-"
              /\ \A n \in (1..13) \ {4, 9} : IsDigit(o[n])
              /\ SelectSeq(o, IsDigit) = PhoneDigits
         ELSE o = phone.s

\* an input with separators whose 11 digits were regrouped
C9_Witness ==
  /\ formatted # None
  /\ Len(PhoneDigits) = 11
  /\ Len(phone.s) > 11
  /\ formatted.web # phone.s
  /\ formatted.web[4] = "-"

\* the schema kinds a field's payload may be written under
ExpectedKinds(f) ==
  CASE f = "email"              -> {"email"}
    [] f = "phone"              -> {"phone_number"}
    [] f \in {"age", "gender"}  -> {"select"}
    [] f = "position"           -> {"rich_text", "multi_select"}
    [] OTHER                    -> {"rich_text"}

\* the record keys a field is read from
SourceKeys(f) ==
  CASE f = "age" -> {"age_paren", "age"}
    [] f = "edu" -> {"edu_school", "edu"}
    [] OTHER     -> {f}

\* C10 (as stated): every non-title field of a PropertySet the mapper built
\* is non-null in the record and declared in the schema with the kind the
\* field expects, and is written as that kind.
C10_OnlyDeclaredKinds ==
  (op \in {"NotionUploader._build_properties", "_build_properties"}
     /\ out.ret.kind = "return")
    => \A f \in DOMAIN out.ret.value \ {"name"} :
         /\ \E k \in SourceKeys(f) : Get(person_data, k) # None
         /\ f \in DOMAIN db_info.properties
         /\ db_info.properties[f] \in ExpectedKinds(f)
         /\ out.ret.value[f].type = db_info.properties[f]

Builders == {"NotionUploader._build_properties", "_build_properties"}

\* the values the mapper that ran read for its select and free-text fields
SelectRead == IF op = "_build_properties" THEN ResumeSelectFields(person_data)
              ELSE WebSelectFields(person_data)
RichRead   == IF op = "_build_properties" THEN ResumeRichTextFields(person_data)
              ELSE WebRichTextFields(person_data)

Declares(f, kind) == f \in DOMAIN db_info.properties /\ db_info.properties[f] = kind

\* C11 (as stated): a select field is set exactly when its raw value is
\* non-null and the schema declares it select, named by the string form of
\* the value; a free-text field is set as one rich-text block exactly when
\* its raw value is non-null and the schema declares it rich_text; the empty
\* string is a non-null value.
C11_SetExactlyWhenNonNull ==
  (op \in Builders /\ out.ret.kind = "return")
    => LET P == out.ret.value
       IN  /\ \A f \in DOMAIN SelectRead :
                /\ f \in DOMAIN P <=> (SelectRead[f] # None /\ Declares(f, "select"))
                /\ f \in DOMAIN P => P[f] = Select(PyStr(SelectRead[f]))
           /\ \A f \in DOMAIN RichRead :
                /\ (f \in DOMAIN P /\ P[f].type = "rich_text")
                     <=> (RichRead[f] # None /\ Declares(f, "rich_text"))
                /\ (f \in DOMAIN P /\ P[f].type = "rich_text")
                     => P[f] = RichText(PyStr(RichRead[f]))

\* the payload a field's value is written as under the declared kind
PayloadFor(f, v) == IF f = "age" THEN Select(PyStr(v)) ELSE RichText(PyStr(v))
AliasKind(f)     == IF f = "age" THEN "select" ELSE "rich_text"
AltKey(f)        == IF f = "age" THEN "age_paren" ELSE "edu_school"

\* C12 (as stated): in both mappers a record carrying the age or the
\* education value under either spelling, the schema declaring the matching
\* kind, yields the property, and with both spellings present the same
\* spelling wins in both mappers.
C12_BothSpellingsRead ==
  (op \in Builders /\ out.ret.kind = "return")
    => \A f \in {"age", "edu"} :
         LET alt   == Get(person_data, AltKey(f))
             canon == Get(person_data, f)
         IN  ((Truthy(alt) \/ Truthy(canon)) /\ Declares(f, AliasKind(f)))
               => /\ f \in DOMAIN out.ret.value
                  /\ out.ret.value[f] = PayloadFor(f, PyOr(alt, canon))

(***************************************************************************)
(* The two mappers on generated values of the target-position field        *)
(***************************************************************************)
PositionChars == {"B", "F", ",", " "}
RECURSIVE PositionTexts(_)
PositionTexts(n) ==
  IF n = 0 THEN {<<>>}
  ELSE LET prev == PositionTexts(n - 1)
       IN  prev \cup { Append(t, c) : t \in { u \in prev : Len(u) = n - 1 },
                                       c \in PositionChars }

PositionRecords ==
  { Dict([k \in {"name", "position"} |->
            IF k = "name" THEN Str(<<"A">>) ELSE Str(t)]) :
      t \in PositionTexts(MaxPosition)
             \cup {PositionSample, <<"\t", "B", " ", "F", "\n", ",", "B", " ", "F">>} }

\* a workspace whose fields are all multi-select
MultiSelectSchema ==
  DbInfo([f \in SchemaFields |-> IF f = "name" THEN "title" ELSE "multi_select"])

InitPosition ==
  /\ SessionStart
  /\ PhoneStart
  /\ \/ /\ person_data \in PositionRecords
        /\ db_info \in { DbInfo(One("position", k)) : k \in Kinds }
     \/ /\ person_data \in ExtraRecords
        /\ db_info \in {MultiSelectSchema, FullSchema}
  /\ op = "none"
  /\ out = None

SpecPosition == InitPosition /\ [][NextMapper]_vars

\* the segments of s between commas that hold a non-space character, each
\* from its first to its last non-space character, in order
SegmentStarts(s) == {0} \cup { n \in 1..Len(s) : s[n] = "," }
SegmentEnd(s, a) ==
  CHOOSE b \in (a + 1)..(Len(s) + 1) :
    /\ b = Len(s) + 1 \/ s[b] = ","
    /\ \A n \in (a + 1)..(b - 1) : s[n] # ","
Inked(s, a) == { n \in (a + 1)..(SegmentEnd(s, a) - 1) : ~IsSpace(s[n]) }
MinOf(S) == CHOOSE n \in S : \A m \in S : n <= m
MaxOf(S) == CHOOSE n \in S : \A m \in S : n >= m
ExpectedChoices(s) ==
  LET kept  == { a \in SegmentStarts(s) : Inked(s, a) # {} }
      order == CHOOSE f \in [1..Cardinality(kept) -> kept] :
                 \A m, n \in 1..Cardinality(kept) : m < n => f[m] < f[n]
  IN  [n \in 1..Cardinality(kept) |->
         SubSeq(s, MinOf(Inked(s, order[n])), MaxOf(Inked(s, order[n])))]

\* C13: when the schema declares the target-position field multi_select, the
\* choices emitted for a string value are its comma-separated segments,
\* trimmed, the empty ones dropped, in their order and with duplicates kept;
\* no choice is empty or starts or ends with whitespace; no other field is
\* ever emitted as multi_select.
C13_PositionChoices ==
  (op \in Builders /\ out.ret.kind = "return")
    => LET P == out.ret.value
           v == Get(person_data, "position")
       IN  /\ \A f \in DOMAIN P : P[f].type = "multi_select" => f = "position"
           /\ (Declares("position", "multi_select") /\ v.tag = "str")
                => LET emitted == IF "position" \in DOMAIN P THEN P["position"].names
                                  ELSE <<>>
                   IN  /\ "position" \in DOMAIN P => P["position"].type = "multi_select"
                       /\ Truthy(v) => "position" \in DOMAIN P
                       /\ emitted = ExpectedChoices(v.s)
                       /\ \A n \in 1..Len(emitted) :
                            /\ emitted[n] # <<>>
                            /\ ~IsSpace(emitted[n][1])
                            /\ ~IsSpace(emitted[n][Len(emitted[n])])

\* the value "B, F ,  " mapped to the two choices B and F
C13_Witness ==
  /\ op \in Builders
  /\ out.ret.kind = "return"
  /\ Get(person_data, "position") = Str(PositionSample)
  /\ "position" \in DOMAIN out.ret.value
  /\ out.ret.value["position"] = MultiSelect(<< <<"B">>, <<"F">> >>)

IsRetrieve(c)  == c.api = "databases.retrieve"
IsCreate(c)    == c.api = "pages.create"
Retrievals(cs) == SelectSeq(cs, IsRetrieve)

\* C14: the uploader's cached schema is retrieved by the connection test, at
\* most once per test, and every step of an upload, single or batch, leaves
\* the stored uploader and its schema as they were and retrieves no schema.
C14_SchemaRetrievedOnce ==
  [][ /\ event' = "upload"
         => /\ session_state'.uploader = session_state.uploader
            /\ Retrievals(remote_calls') = <<>>
      /\ event' = "test"
         => /\ Len(Retrievals(remote_calls')) <= 1
            /\ session_state'.uploader # session_state.uploader
                 => /\ remote_calls' = <<RetrieveCall(database_id, "ok")>>
                    /\ session_state'.uploader.db_info = RemoteSchema(database_id)
    ]_vars

\* a batch of MaxBatch records went through against the full schema, each
\* with its own create call
C14_Witness ==
  /\ BatchFinished
  /\ Len(data.items) = MaxBatch
  /\ Len(remote_calls) = MaxBatch
  /\ \A n \in 1..Len(remote_calls) : IsCreate(remote_calls[n])
  /\ session_state.uploader.db_info = FullSchema

\* C15: every create-page call targets the database of the stored uploader,
\* which a successful connection test built from the inputs of that moment;
\* editing an input changes nothing in the session state, and a failed test
\* leaves the stored uploader in place.
C15_TargetIsStoredUploader ==
  [][ /\ \A n \in 1..Len(remote_calls') :
           IsCreate(remote_calls'[n])
             => /\ session_state.uploader # None
                /\ session_state'.uploader # None
                /\ remote_calls'[n].database_id = session_state.uploader.database_id
                /\ remote_calls'[n].database_id = session_state'.uploader.database_id
      /\ event' = "edit" => session_state' = session_state
      /\ (event' = "test" /\ ~session_state'.connection_verified)
           => session_state'.uploader = session_state.uploader
      /\ (event' = "test" /\ Retrievals(remote_calls') # <<>>
                          /\ session_state'.connection_verified)
           => session_state'.uploader =
                [NotionUploader(notion_token, database_id)
                   EXCEPT !.db_info = RemoteSchema(database_id)]
      /\ event' = "upload"
           => \A db \in RemoteDbs :
                pages'[db] # pages[db] => db = session_state.uploader.database_id
    ]_vars

\* the database id input was edited to the other database after the test, and
\* the page still went to the database of the stored uploader
C15_Witness ==
  /\ event = "upload"
  /\ database_id \in RemoteDbs
  /\ database_id # session_state.uploader.database_id
  /\ \E n \in 1..Len(remote_calls) :
       IsCreate(remote_calls[n]) /\ remote_calls[n].answer = "ok"
  /\ pages[database_id] = 0
  /\ pages[session_state.uploader.database_id] > 0

=============================================================================
